---- MODULE Spec2Model ----
(***************************************************************************)
(* Model of pull_data.py: a one-shot script that pages through the NYC     *)
(* restaurant-inspection endpoint with $limit/$offset, accumulates the     *)
(* pages in a DataFrame, coerces inspection_date, projects an allow-list   *)
(* of columns and writes a CSV and a Parquet file.                         *)
(*                                                                         *)
(* A JSON record is a function from the keys it carries to their values;   *)
(* a key that a record lacks is a NaN cell of the DataFrame.  The text of  *)
(* an inspection_date is modelled by the tuple of its numeric fields.      *)
(***************************************************************************)
EXTENDS Integers, Sequences, FiniteSets, TLC

VARIABLES pc, start_date, end_date, initial_data, df, offset, log, fs, server

vars == <<pc, start_date, end_date, initial_data, df, offset, log, fs, server>>

-----------------------------------------------------------------------------
(* Program constants *)

LIMIT == 1000

desired_columns ==
    << "camis", "dba", "boro", "building", "street", "zipcode", "phone",
       "cuisine_description", "inspection_date", "action", "violation_code",
       "violation_description", "critical_flag", "score", "grade",
       "grade_date", "record_date", "inspection_type" >>

(* Bounds of the model *)

\* the environment answers at most this many requests with a full page
MaxFullPages == 2

\* the consistent server holds at most this many full pages of rows
MaxServerPages == 2

-----------------------------------------------------------------------------
(* Calendar arithmetic of datetime.date *)

IsLeap(y) == (y % 4 = 0) /\ ((y % 100 # 0) \/ (y % 400 = 0))

DaysInMonth(y, m) ==
    IF m = 2 THEN (IF IsLeap(y) THEN 29 ELSE 28)
    ELSE IF m \in {4, 6, 9, 11} THEN 30 ELSE 31

DaysBeforeYear(y) ==
    (y - 1) * 365 + ((y - 1) \div 4) - ((y - 1) \div 100) + ((y - 1) \div 400)

RECURSIVE DaysBeforeMonth(_, _)
DaysBeforeMonth(y, m) ==
    IF m = 1 THEN 0 ELSE DaysBeforeMonth(y, m - 1) + DaysInMonth(y, m - 1)

toordinal(d) == DaysBeforeYear(d.y) + DaysBeforeMonth(d.y, d.m) + d.d

Years == 2023..2026

fromordinal(n) ==
    LET y == CHOOSE yy \in Years :
                 DaysBeforeYear(yy) < n /\ n <= DaysBeforeYear(yy + 1)
        r == n - DaysBeforeYear(y)
        m == CHOOSE mm \in 1..12 :
                 DaysBeforeMonth(y, mm) < r
                 /\ r <= DaysBeforeMonth(y, mm) + DaysInMonth(y, mm)
    IN  [y |-> y, m |-> m, d |-> r - DaysBeforeMonth(y, m)]

\* date - timedelta(days=n)
minus_days(d, n) == fromordinal(toordinal(d) - n)

\* strftime('%Y-%m-%d'): the three fields of the text
strftime_Y_m_d(d) == <<d.y, d.m, d.d>>

\* strftime('%Y%m%d'): the eight digits as a number
strftime_Ymd(d) == d.y * 10000 + d.m * 100 + d.d

\* the runs explored: the date date.today() returns, and whether an earlier
\* run has left files of the same names in the directory
Setups == { [today |-> [y |-> 2024, m |-> 6, d |-> 28], stale |-> FALSE],
            [today |-> [y |-> 2025, m |-> 3, d |-> 1],  stale |-> TRUE] }

-----------------------------------------------------------------------------
(* JSON records the endpoint can return *)

\* the order in which the endpoint lists the fields of a record
KeyOrder == << "camis", "dba", "inspection_date", "grade", "bbl", "latitude" >>

\* text of inspection_date in row i: a real date, an impossible date,
\* text that is no date at all
DateText(i) ==
    CASE i % 3 = 0 -> <<2024, 2, 29>>
      [] i % 3 = 1 -> <<2023, 2, 29>>
      [] OTHER     -> <<>>

\* "ragged": records that differ in the keys they carry, with a key outside
\* the allow-list; "nodate": no record carries inspection_date;
\* "keyless": records without any key
Shapes == {"ragged", "nodate", "keyless"}

KeysOf(shape, i) ==
    CASE shape = "ragged"  -> {"camis", "latitude"}
                                \cup (IF i % 2 = 0 THEN {"inspection_date"} ELSE {})
                                \cup (IF i % 3 # 0 THEN {"dba"} ELSE {})
                                \cup (IF i % 4 = 1 THEN {"grade"} ELSE {})
      [] shape = "nodate"  -> {"camis", "dba", "bbl"}
      [] OTHER             -> {}

ValueOf(k, i) ==
    CASE k = "camis"           -> i
      [] k = "inspection_date" -> DateText(i)
      [] k = "grade"           -> IF i % 2 = 0 THEN "A" ELSE "B"
      [] OTHER                 -> "text"

Row(shape, i) == [k \in KeysOf(shape, i) |-> ValueOf(k, i)]

\* n rows of one shape, numbered from first + 1
Rows(shape, first, n) == [i \in 1..n |-> Row(shape, first + i)]

PageSizes == {0, 1, LIMIT - 1, LIMIT}

-----------------------------------------------------------------------------
(* pandas *)

\* the keys some record of the list carries
KeysIn(data) == UNION { DOMAIN data[i] : i \in 1..Len(data) }

\* pd.DataFrame(list of dicts)
DataFrame(data) ==
    LET keys == KeysIn(data)
    IN  [columns |-> SelectSeq(KeyOrder, LAMBDA k : k \in keys),
         rows    |-> data]

EmptyFrame == [columns |-> <<>>, rows |-> <<>>]

InSeq(x, s) == \E j \in 1..Len(s) : s[j] = x

\* pd.concat([a, b], ignore_index=True)
concat(a, b) ==
    [columns |-> a.columns \o SelectSeq(b.columns, LAMBDA k : ~InSeq(k, a.columns)),
     rows    |-> a.rows \o b.rows]

\* (variant: the guard on df.empty is missing)
empty_Never(f) == FALSE

\* df.empty: no rows or no columns
empty(f) == Len(f.rows) = 0 \/ Len(f.columns) = 0

NaT == [isnull |-> TRUE, ord |-> 0]

\* pd.to_datetime(text, errors='coerce') of one cell
to_datetime(text) ==
    IF /\ Len(text) = 3
       /\ text[1] \in Years
       /\ text[2] \in 1..12
       /\ text[3] \in 1..DaysInMonth(text[1], text[2])
    THEN [isnull |-> FALSE,
          ord    |-> toordinal([y |-> text[1], m |-> text[2], d |-> text[3]])]
    ELSE NaT

\* df['inspection_date'] = pd.to_datetime(df['inspection_date'], errors='coerce')
coerce_row(r) ==
    [k \in DOMAIN r \cup {"inspection_date"} |->
        IF k = "inspection_date"
        THEN (IF k \in DOMAIN r THEN to_datetime(r[k]) ELSE NaT)
        ELSE r[k]]

coerce_dates(f) ==
    [columns |-> f.columns, rows |-> [i \in 1..Len(f.rows) |-> coerce_row(f.rows[i])]]

\* (variant: every column of the frame is kept)
existing_columns_NoFilter(f) == f.columns

\* [col for col in desired_columns if col in df.columns]
existing_columns(f) == SelectSeq(desired_columns, LAMBDA c : InSeq(c, f.columns))

\* df[cols]
project(f, cols) ==
    [columns |-> cols,
     rows    |-> [i \in 1..Len(f.rows) |->
                    [k \in {c \in DOMAIN f.rows[i] : InSeq(c, cols)} |-> f.rows[i][k]]]]

-----------------------------------------------------------------------------
(* Files *)

file_name_csv ==
    <<"nyc_restaurant_inspections_", strftime_Ymd(start_date), "_to_",
      strftime_Ymd(end_date), ".csv">>

file_name_parquet ==
    <<"nyc_restaurant_inspections_", strftime_Ymd(start_date), "_to_",
      strftime_Ymd(end_date), ".parquet">>

NoFiles == [n \in {} |-> EmptyFrame]

\* what an earlier run of the same day left behind
StaleFile(fmt) == [format |-> fmt, table |-> [columns |-> <<"camis">>, rows |-> <<>>]]

write(files, name, content) ==
    [n \in DOMAIN files \cup {name} |-> IF n = name THEN content ELSE files[n]]

-----------------------------------------------------------------------------
(* The server *)

Adversarial == [consistent |-> FALSE, data |-> <<>>]

\* the pages a request with the given offset can be answered with
Responses(off) ==
    IF server.consistent
    THEN { [i \in 1..(IF Len(server.data) - off >= LIMIT THEN LIMIT
                      ELSE IF Len(server.data) > off THEN Len(server.data) - off
                      ELSE 0) |-> server.data[off + i]] }
    ELSE { Rows(s, 0, n) : s \in Shapes,
             n \in {m \in PageSizes : /\ m = LIMIT => Len(log) <= MaxFullPages
                                      /\ m > 0 => Len(log) <= MaxFullPages + 1} }

\* the requests the adversarial server may fail
MayFail == Len(log) <= MaxFullPages + 1

-----------------------------------------------------------------------------
(* State after the configuration block, lines 10-36 *)

\* the files of the directory before the run
InitialFiles(stale) ==
    IF stale
    THEN write(write(NoFiles, file_name_csv, StaleFile("csv")),
               file_name_parquet, StaleFile("parquet"))
    ELSE NoFiles

InitRun ==
    /\ pc = "initial_call"
    /\ \E setup \in Setups :
          /\ end_date = minus_days(setup.today, 30)
          /\ start_date = minus_days(minus_days(setup.today, 30), 90)
          /\ fs = InitialFiles(setup.stale)
    /\ initial_data = <<>>
    /\ df = EmptyFrame
    /\ offset = 0
    /\ log = <<>>

Init == InitRun /\ server = Adversarial

-----------------------------------------------------------------------------
(* Requests *)

ORDER_BY == "inspection_date DESC, camis"

where_clause == <<strftime_Y_m_d(start_date), strftime_Y_m_d(end_date)>>

initial_call_url == [limit |-> LIMIT, where |-> where_clause, order |-> ORDER_BY]

paginated_call_url(off) ==
    [limit |-> LIMIT, where |-> where_clause, order |-> ORDER_BY, offset |-> off]

\* the row the endpoint starts at: $offset, or 0 when the URL has none
OffsetOf(url) == IF "offset" \in DOMAIN url THEN url.offset ELSE 0

\* requests.get(url): the request goes out and the script blocks
get(url) == log' = Append(log, [url |-> url, status |-> "pending", data |-> <<>>])

\* the pending request is answered
answered(status, data) ==
    log' = [log EXCEPT ![Len(log)] = [url |-> @.url, status |-> status, data |-> data]]

-----------------------------------------------------------------------------
(* Initial API call, lines 52-63 *)

InitialCallSend ==
    /\ pc = "initial_call"
    /\ get(initial_call_url)
    /\ pc' = "initial_wait"
    /\ UNCHANGED <<start_date, end_date, initial_data, df, offset, fs, server>>

InitialCallOk ==
    /\ pc = "initial_wait"
    /\ \E page \in Responses(OffsetOf(log[Len(log)].url)) :
          /\ answered("ok", page)
          /\ initial_data' = page
          /\ df' = DataFrame(page)
    /\ offset' = 0
    /\ pc' = "while"
    /\ UNCHANGED <<start_date, end_date, fs, server>>

\* except RequestException
InitialCallFail ==
    /\ pc = "initial_wait"
    /\ MayFail
    /\ answered("failed", <<>>)
    /\ initial_data' = <<>>
    /\ df' = EmptyFrame
    /\ offset' = 0
    /\ pc' = "while"
    /\ UNCHANGED <<start_date, end_date, fs, server>>

-----------------------------------------------------------------------------
(* Pagination loop, lines 67-101 *)

\* (variant: the loop goes on while pages are non-empty)
LoopCondition_NonEmpty(data) == Len(data) > 0

\* while len(initial_data) == LIMIT
LoopCondition(data) == Len(data) = LIMIT

\* (variant: offset = LIMIT)
NextOffset_Reset(off) == LIMIT

\* (variant: offset += LIMIT - 1)
NextOffset_Overlap(off) == off + LIMIT - 1

\* offset += LIMIT
NextOffset(off) == off + LIMIT

WhileEnter ==
    /\ pc = "while"
    /\ LoopCondition(initial_data)
    /\ offset' = NextOffset(offset)
    /\ get(paginated_call_url(offset'))
    /\ pc' = "paginated_wait"
    /\ UNCHANGED <<start_date, end_date, initial_data, df, fs, server>>

WhileExit ==
    /\ pc = "while"
    /\ ~LoopCondition(initial_data)
    /\ pc' = "clean"
    /\ UNCHANGED <<start_date, end_date, initial_data, df, offset, log, fs, server>>

\* (variant: df = pd.DataFrame(paginated_data))
Accumulate_Replace(f, page) == DataFrame(page)

\* a non-empty page is appended
Accumulate(f, page) == concat(f, DataFrame(page))

PaginatedOk ==
    /\ pc = "paginated_wait"
    /\ \E page \in Responses(OffsetOf(log[Len(log)].url)) :
          /\ answered("ok", page)
          /\ IF Len(page) = 0
             THEN /\ pc' = "clean"
                  /\ UNCHANGED <<initial_data, df>>
             ELSE /\ df' = Accumulate(df, page)
                  /\ initial_data' = page
                  /\ pc' = "while"
    /\ UNCHANGED <<start_date, end_date, offset, fs, server>>

\* (variant: continue instead of break)
PaginatedFail_Retry ==
    /\ pc = "paginated_wait"
    /\ MayFail
    /\ answered("failed", <<>>)
    /\ pc' = "while"
    /\ UNCHANGED <<start_date, end_date, initial_data, df, offset, fs, server>>

\* (variant: the handler of the initial call, which discards the table)
PaginatedFail_Discard ==
    /\ pc = "paginated_wait"
    /\ MayFail
    /\ answered("failed", <<>>)
    /\ initial_data' = <<>>
    /\ df' = EmptyFrame
    /\ pc' = "clean"
    /\ UNCHANGED <<start_date, end_date, offset, fs, server>>

\* except RequestException: break
PaginatedFail ==
    /\ pc = "paginated_wait"
    /\ MayFail
    /\ answered("failed", <<>>)
    /\ pc' = "clean"
    /\ UNCHANGED <<start_date, end_date, initial_data, df, offset, fs, server>>

-----------------------------------------------------------------------------
(* Cleaning and projection, lines 107-124 *)

has_column(f, c) == InSeq(c, f.columns)

\* else: "No data retrieved to process or save."
NoData ==
    /\ pc = "clean"
    /\ empty(df)
    /\ pc' = "done"
    /\ UNCHANGED <<start_date, end_date, initial_data, df, offset, log, fs, server>>

\* df['inspection_date'] on a frame without that column: KeyError, uncaught
CleanKeyError ==
    /\ pc = "clean"
    /\ ~empty(df)
    /\ ~has_column(df, "inspection_date")
    /\ pc' = "crashed"
    /\ UNCHANGED <<start_date, end_date, initial_data, df, offset, log, fs, server>>

\* lines 110-124 on a frame: the dates are coerced, then the frame that
\* results is projected on those of the desired columns it has
cleaned(f) ==
    CHOOSE out \in { project(g, existing_columns(g)) : g \in {coerce_dates(f)} } : TRUE

CleanAndProject ==
    /\ pc = "clean"
    /\ ~empty(df)
    /\ has_column(df, "inspection_date")
    /\ df' = cleaned(df)
    /\ pc' = "save_csv"
    /\ UNCHANGED <<start_date, end_date, initial_data, offset, log, fs, server>>

-----------------------------------------------------------------------------
(* Saving, lines 136-147 *)

to_csv(f) == [format |-> "csv", table |-> f]

to_parquet(f) == [format |-> "parquet", table |-> f]

\* what a write that raised can leave on disk: nothing new, or a truncated file
AfterFailedWrite(name, content) ==
    { fs, write(fs, name, [format |-> content.format,
                           table  |-> [columns |-> content.table.columns, rows |-> <<>>]]) }

SaveCsvOk ==
    /\ pc = "save_csv"
    /\ fs' = write(fs, file_name_csv, to_csv(df))
    /\ pc' = "save_parquet"
    /\ UNCHANGED <<start_date, end_date, initial_data, df, offset, log, server>>

\* except Exception: the Parquet write is not attempted
SaveCsvFail ==
    /\ pc = "save_csv"
    /\ fs' \in AfterFailedWrite(file_name_csv, to_csv(df))
    /\ pc' = "done"
    /\ UNCHANGED <<start_date, end_date, initial_data, df, offset, log, server>>

SaveParquetOk ==
    /\ pc = "save_parquet"
    /\ fs' = write(fs, file_name_parquet, to_parquet(df))
    /\ pc' = "done"
    /\ UNCHANGED <<start_date, end_date, initial_data, df, offset, log, server>>

SaveParquetFail ==
    /\ pc = "save_parquet"
    /\ fs' \in AfterFailedWrite(file_name_parquet, to_parquet(df))
    /\ pc' = "done"
    /\ UNCHANGED <<start_date, end_date, initial_data, df, offset, log, server>>

-----------------------------------------------------------------------------
(* Specifications *)

Next ==
    \/ InitialCallSend
    \/ InitialCallOk
    \/ InitialCallFail
    \/ WhileEnter
    \/ WhileExit
    \/ PaginatedOk
    \/ PaginatedFail
    \/ NoData
    \/ CleanKeyError
    \/ CleanAndProject
    \/ SaveCsvOk
    \/ SaveCsvFail
    \/ SaveParquetOk
    \/ SaveParquetFail

Spec == Init /\ [][Next]_vars

\* A server that holds a fixed dataset and never fails a request
DatasetSizes == { k * LIMIT + d : k \in 0..MaxServerPages, d \in {0, 1, LIMIT - 1} }

InitServer ==
    /\ InitRun
    /\ \E shape \in Shapes, N \in DatasetSizes :
          server = [consistent |-> TRUE, data |-> Rows(shape, 0, N)]

NextServer ==
    \/ InitialCallSend
    \/ InitialCallOk
    \/ WhileEnter
    \/ WhileExit
    \/ PaginatedOk
    \/ NoData
    \/ CleanKeyError
    \/ CleanAndProject
    \/ SaveCsvOk
    \/ SaveCsvFail
    \/ SaveParquetOk
    \/ SaveParquetFail

SpecServer == InitServer /\ [][NextServer]_vars /\ WF_vars(NextServer)

-----------------------------------------------------------------------------
(* Vocabulary of the properties *)

Last == log[Len(log)]

Fetching == pc \in {"initial_call", "initial_wait", "while", "paginated_wait"}

Ended == pc \in {"done", "crashed"}

\* the rows of the pages received so far, in request order
RECURSIVE Received(_)
Received(n) ==
    IF n = 0 THEN <<>>
    ELSE Received(n - 1) \o (IF log[n].status = "ok" THEN log[n].data ELSE <<>>)

\* the cleaning step has produced the output table
Projected ==
    \/ pc \in {"save_csv", "save_parquet"}
    \/ pc = "done" /\ ~empty(df)

\* the date texts of the records that name a day of the calendar
RealDates == {<<2024, 2, 29>>}

Position(c, s) == CHOOSE j \in 1..Len(s) : s[j] = c

-----------------------------------------------------------------------------
(* Properties *)

\* C1: once a response has fewer than LIMIT rows (zero included) no further
\* request is issued, and a request other than the first is issued only when
\* the response before it was a success with exactly LIMIT rows.
C1_StopsOnShortPage ==
    /\ \A i \in 1..Len(log) :
          (log[i].status = "ok" /\ Len(log[i].data) < LIMIT) => i = Len(log)
    /\ \A i \in 2..Len(log) :
          log[i - 1].status = "ok" /\ Len(log[i - 1].data) = LIMIT

C1_Witness ==
    /\ Ended
    /\ Len(log) = 3
    /\ Last.status = "ok"
    /\ Len(Last.data) = LIMIT - 1

\* C2: a failed request is the last request of the run, and no offset is
\* requested twice.
C2_FailureAbortsNoRetry ==
    /\ \A i \in 1..Len(log) : log[i].status = "failed" => i = Len(log)
    /\ \A i, j \in 1..Len(log) :
          i # j => OffsetOf(log[i].url) # OffsetOf(log[j].url)

C2_Witness ==
    /\ Ended
    /\ Len(log) = 3
    /\ Last.status = "failed"

C4_DateCoercionNeverRaises ==
    /\ pc # "crashed"
    /\ Projected =>
          \A raw \in { Received(Len(log)) } :
              /\ Len(df.rows) = Len(raw)
              /\ \A i \in 1..Len(raw) :
                    ("inspection_date" \notin DOMAIN raw[i]
                       \/ raw[i]["inspection_date"] \notin RealDates)
                    => df.rows[i]["inspection_date"] = NaT

\* C5: the $offset of every paginated request equals the number of rows
\* accumulated when it is sent, and the offsets of the requests of a run are
\* 0, LIMIT, 2*LIMIT, ... in order.
C5_OffsetIsRowsFetched ==
    /\ (pc = "paginated_wait") =>
          /\ "offset" \in DOMAIN Last.url
          /\ Last.url.offset = Len(df.rows)
          /\ Last.url.offset = Len(Received(Len(log)))
    /\ \A i \in 1..Len(log) : OffsetOf(log[i].url) = (i - 1) * LIMIT

C5_Witness ==
    /\ pc = "paginated_wait"
    /\ Len(log) = 3
    /\ Last.url.offset = 2 * LIMIT
    /\ Len(df.rows) = 2 * LIMIT

\* C6: every run whose accumulated table is non-empty ends with the CSV file
\* and the Parquet file written, each holding the projected table and named
\* by the start and end dates of the run.
C6_BothFilesWritten ==
    (Ended /\ ~empty(df)) =>
        /\ Projected
        /\ file_name_csv \in DOMAIN fs
        /\ file_name_parquet \in DOMAIN fs
        /\ fs[file_name_csv] = [format |-> "csv", table |-> df]
        /\ fs[file_name_parquet] = [format |-> "parquet", table |-> df]

\* C7: the table is the concatenation, in request order, of the rows of the
\* pages received: exactly so until the cleaning step, and row for row
\* (same count, same position, same cells but the coerced date) after it.
C7_AccumulationPreservesPages ==
    \A raw \in { Received(Len(log)) } :
        /\ Len(df.rows) = Len(raw)
        /\ ~Projected => df.rows = raw
        /\ Projected =>
              \A i \in 1..Len(raw) :
                 \A k \in DOMAIN df.rows[i] \ {"inspection_date"} :
                    k \in DOMAIN raw[i] /\ df.rows[i][k] = raw[i][k]

C7_Witness ==
    /\ pc = "clean"
    /\ Len(log) = 3
    /\ Last.status = "ok"
    /\ Len(df.rows) = 2 * LIMIT + 1
    /\ DOMAIN df.rows[1] # DOMAIN df.rows[LIMIT + 1]

\* C8: against a server that holds N rows and answers every request with
\* rows [offset, offset + LIMIT), pagination ends, after exactly
\* N \div LIMIT + 1 requests, with the table holding the N rows in server order.
C8_CompleteFetch ==
    /\ <>(~Fetching)
    /\ [](~Fetching => /\ Len(log) = (Len(server.data) \div LIMIT) + 1
                       /\ \A i \in 1..Len(log) : log[i].status = "ok")
    /\ [](pc = "clean" => df.rows = server.data)
    /\ []((~Fetching /\ Len(server.data) > 0 /\ Len(server.data) % LIMIT = 0)
            => Len(Last.data) = 0)

C8_Witness ==
    /\ server.consistent
    /\ pc = "clean"
    /\ Len(server.data) = 2 * LIMIT
    /\ Len(log) = 3
    /\ Len(Last.data) = 0
    /\ df.rows = server.data
    /\ df.rows[1] # df.rows[2]

\* C9: a failed paginated request leaves the table as it was, holding the
\* rows of the pages received before it, and hands it to the cleaning block;
\* from there the run is never stuck short of its end, and a file it writes
\* holds the cleaned partial table.
C9_FailureKeepsPartialTable ==
    /\ [][(pc = "paginated_wait" /\ Last'.status = "failed")
             => (df' = df /\ pc' = "clean" /\ fs' = fs)]_vars
    /\ []((Len(log) >= 2 /\ Last.status = "failed") =>
            /\ ~Fetching
            /\ Len(df.rows) = (Len(log) - 1) * LIMIT
            /\ Len(df.rows) = Len(Received(Len(log)))
            /\ pc = "clean" => /\ df.rows = Received(Len(log))
                               /\ ENABLED (CleanAndProject \/ CleanKeyError \/ NoData)
            /\ pc = "save_csv" => ENABLED SaveCsvOk
            /\ pc = "save_parquet" =>
                  /\ ENABLED SaveParquetOk
                  /\ fs[file_name_csv] = [format |-> "csv", table |-> df]
            /\ (pc = "done" /\ file_name_parquet \in DOMAIN fs
                   /\ fs[file_name_parquet].table.rows # <<>>)
                  => fs[file_name_parquet] = [format |-> "parquet", table |-> df])

C9_Witness ==
    /\ pc = "done"
    /\ Len(log) = 3
    /\ Last.status = "failed"
    /\ file_name_csv \in DOMAIN fs
    /\ file_name_parquet \in DOMAIN fs
    /\ Len(fs[file_name_csv].table.rows) = 2 * LIMIT
    /\ Len(fs[file_name_parquet].table.rows) = 2 * LIMIT

\* C10: when the table has no rows after pagination, the only request of the
\* run was the initial one, which failed or returned zero rows; cleaning and
\* projection are skipped and no file is created or overwritten.
C10_NoOutputOnEmptyResult ==
    /\ []((~Fetching /\ Len(df.rows) = 0) =>
            /\ Len(log) = 1
            /\ log[1].status = "failed" \/ Len(log[1].data) = 0
            /\ pc \in {"clean", "done"}
            /\ df.columns = <<>>
            /\ \E stale \in BOOLEAN : fs = InitialFiles(stale))
    /\ [][(pc = "clean" /\ Len(df.rows) = 0)
             => (pc' = "done" /\ df' = df /\ fs' = fs /\ log' = log)]_vars

C10_Witness ==
    /\ pc = "done"
    /\ Len(df.rows) = 0
    /\ log[1].status = "failed"
    /\ fs = InitialFiles(TRUE)

====
